---- MODULE Spec2Model ----
(***************************************************************************)
(* Model of helix-term/src/ui/refactor.rs: the RefactorView that gathers   *)
(* per-file line matches into one synthetic buffer (RefactorView::new),    *)
(* writes the edited rows back to the real documents (apply_refactor) and  *)
(* filters key events (Component::handle_event).                           *)
(*                                                                         *)
(* Text is a sequence of one-character strings; offsets and line numbers   *)
(* are 0-based as in the Rust code, sequence indices are 1-based.          *)
(***************************************************************************)
EXTENDS Integers, Sequences, FiniteSets, TLC

\* ------------------------------------------------------------------ bounds
\* Total number of (line, text) entries of a match set.
MaxMatches == 2
\* Number of characters of a snapshot text.
MaxTextLen == 1
\* Number of buffer edits the user makes in one session.
MaxEdits == 1

\* ------------------------------------------------------------ input domains
NL == "\n"
None == "None"
Paths == {"a.txt", "b.txt"}
Lines == {0, 1}
Chars == {"y", "Y", NL}
TextChars == {"y", NL}
Modes == {"normal", "insert"}

SeqsUpTo(S, n) == UNION {[1..k -> S] : k \in 0..n}
\* Snapshot texts: any text of the characters, and the texts of one line.
Texts == SeqsUpTo(TextChars, MaxTextLen)
LineTexts == {<<>>, <<"y">>}

\* -------------------------------------------------------------- Option<T>
Some(x) == <<x>>
NoneOpt == <<>>
unwrap_or(opt, default) == IF opt = NoneOpt THEN default ELSE opt[1]

\* ------------------------------------------------------------------- Rope
\* Rope::len_lines: one more than the number of line breaks.
len_lines(t) == Cardinality({i \in DOMAIN t : t[i] = NL}) + 1

\* Rope::line_to_char: offset of the first character of a line.
line_to_char(t, line) ==
    IF line = 0 THEN 0
    ELSE IF line >= len_lines(t) THEN Len(t)
    ELSE CHOOSE i \in DOMAIN t :
            t[i] = NL /\ Cardinality({j \in 1..i : t[j] = NL}) = line

\* Rope::get_line: the line with its terminator, None past the last line.
get_line(t, line) ==
    IF line < len_lines(t)
    THEN Some(SubSeq(t, line_to_char(t, line) + 1, line_to_char(t, line + 1)))
    ELSE NoneOpt

\* Faulty variant of strip_suffix_nl: the terminator is left on the row.
strip_suffix_nl_Keep(s) == s

\* str::strip_suffix("\n").unwrap_or(&replace)
strip_suffix_nl(s) ==
    IF Len(s) > 0 /\ s[Len(s)] = NL THEN SubSeq(s, 1, Len(s) - 1) ELSE s

saturating_sub(a, b) == IF a < b THEN 0 ELSE a - b

\* Rope::split_off(at): self keeps the characters before `at`.
split_off(t, at) == SubSeq(t, 1, at)

\* ------------------------------------------------------ RefactorView::new
\* `matches` is the HashMap in its iteration order: a sequence of
\* <<path, list>> pairs with distinct paths, list a sequence of <<line, text>>.
RECURSIVE Flatten(_)
Flatten(ms) ==
    IF ms = <<>> THEN <<>>
    ELSE [i \in 1..Len(ms[1][2]) |-> <<ms[1][1], ms[1][2][i][1], ms[1][2][i][2]>>]
         \o Flatten(Tail(ms))

\* Faulty variant of InsertAll: the "\n" after a text is not inserted.
RECURSIVE InsertAll_NoTerminator(_)
InsertAll_NoTerminator(es) ==
    IF es = <<>> THEN <<>>
    ELSE es[1][3] \o InsertAll_NoTerminator(Tail(es))

\* doc_text after the two loops: every text followed by "\n".
RECURSIVE InsertAll(_)
InsertAll(es) ==
    IF es = <<>> THEN <<>>
    ELSE es[1][3] \o <<NL>> \o InsertAll(Tail(es))

\* The text handed to Document::from: the last character split off.
new_doc_text(ms) ==
    LET doc_text == InsertAll(Flatten(ms))
    IN  split_off(doc_text, saturating_sub(Len(doc_text), 1))

\* Faulty variant of InsertRows: count is not incremented.
RECURSIVE InsertRows_NoIncrement(_, _, _)
InsertRows_NoIncrement(es, count, map) ==
    IF es = <<>> THEN map
    ELSE InsertRows_NoIncrement(Tail(es), count, (<<es[1][1], es[1][2]>> :> count) @@ map)

\* line_map.insert((key, line), count); count += 1 -- a later insert of the
\* same key replaces the earlier one.
RECURSIVE InsertRows(_, _, _)
InsertRows(es, count, map) ==
    IF es = <<>> THEN map
    ELSE InsertRows(Tail(es), count + 1, (<<es[1][1], es[1][2]>> :> count) @@ map)

new_line_map(ms) == InsertRows(Flatten(ms), 0, <<>>)

\* -------------------------------------------- RefactorView::apply_refactor
\* The inner loop: the pending (line, length, replacement) changes of a file.
RECURSIVE Changes(_, _, _, _)
Changes(key, value, lmap, replace_text) ==
    IF value = <<>> THEN <<>>
    ELSE LET line == value[1][1]
             text == value[1][2]
             rest == Changes(key, Tail(value), lmap, replace_text)
         IN  IF <<key, line>> \in DOMAIN lmap
             THEN LET replace == strip_suffix_nl(
                          unwrap_or(get_line(replace_text, lmap[<<key, line>>]), <<NL>>))
                  IN  IF text # replace
                      THEN <<<<line, Len(text), replace>>>> \o rest
                      ELSE rest
             ELSE rest

\* Faulty variant of Stage: the line number is taken for the character offset.
RECURSIVE Stage_LineAsOffset(_, _)
Stage_LineAsOffset(doc_text, changes) ==
    IF changes = <<>> THEN <<>>
    ELSE LET line == changes[1][1]
             length == changes[1][2]
             text == changes[1][3]
             rest == Stage_LineAsOffset(doc_text, Tail(changes))
         IN  IF len_lines(doc_text) > line
             THEN <<<<line, line + length, text>>>> \o rest
             ELSE rest

\* The staging loop over `changes`: a change is staged, and counted, when its
\* line is within the document; the others are dropped.
RECURSIVE Stage(_, _)
Stage(doc_text, changes) ==
    IF changes = <<>> THEN <<>>
    ELSE LET line == changes[1][1]
             length == changes[1][2]
             text == changes[1][3]
             rest == Stage(doc_text, Tail(changes))
         IN  IF len_lines(doc_text) > line
             THEN LET start == line_to_char(doc_text, line)
                  IN  <<<<start, start + length, text>>>> \o rest
             ELSE rest

\* Transaction::change requires the ranges in ascending order, not
\* overlapping, and within the document.
ValidChanges(len, applychanges) ==
    \A i \in DOMAIN applychanges :
        /\ applychanges[i][1] <= applychanges[i][2]
        /\ applychanges[i][2] <= len
        /\ i > 1 => applychanges[i - 1][2] <= applychanges[i][1]

\* apply_transaction of a valid batch: every range replaced by its text.
RECURSIVE ApplyChanges(_, _)
ApplyChanges(doc_text, applychanges) ==
    IF applychanges = <<>> THEN doc_text
    ELSE LET n == Len(applychanges)
             c == applychanges[n]
         IN  ApplyChanges(
                 SubSeq(doc_text, 1, c[1]) \o c[3] \o SubSeq(doc_text, c[2] + 1, Len(doc_text)),
                 SubSeq(applychanges, 1, n - 1))

\* editor.open(&key, Action::Load).ok(): whether the document can be opened.
CanOpen(op, key) == op[key]

\* Faulty variant of RefactorFile: a file without pending changes is opened too.
RefactorFile_OpensUnchanged(st, key, value, lmap, replace_text, op) ==
    LET changes == Changes(key, value, lmap, replace_text)
    IN  IF ~CanOpen(op, key) THEN st
        ELSE LET applychanges == Stage(st.files[key], changes)
                 opened == [st EXCEPT !.documents = @ + 1,
                                      !.count = @ + Len(applychanges)]
             IN  IF ValidChanges(Len(st.files[key]), applychanges)
                 THEN [opened EXCEPT !.files[key] = ApplyChanges(@, applychanges)]
                 ELSE [opened EXCEPT !.fatal = TRUE]

\* Faulty variant of RefactorFile: every pending change is counted, staged or not.
RefactorFile_CountsPending(st, key, value, lmap, replace_text, op) ==
    LET changes == Changes(key, value, lmap, replace_text)
    IN  IF changes = <<>> THEN st
        ELSE IF ~CanOpen(op, key) THEN st
        ELSE LET applychanges == Stage(st.files[key], changes)
                 opened == [st EXCEPT !.documents = @ + 1,
                                      !.count = @ + Len(changes)]
             IN  IF ValidChanges(Len(st.files[key]), applychanges)
                 THEN [opened EXCEPT !.files[key] = ApplyChanges(@, applychanges)]
                 ELSE [opened EXCEPT !.fatal = TRUE]

\* Faulty variant of RefactorFile: the document is counted before it is opened.
RefactorFile_CountsUnopened(st, key, value, lmap, replace_text, op) ==
    LET changes == Changes(key, value, lmap, replace_text)
    IN  IF changes = <<>> THEN st
        ELSE IF ~CanOpen(op, key) THEN [st EXCEPT !.documents = @ + 1]
        ELSE LET applychanges == Stage(st.files[key], changes)
                 opened == [st EXCEPT !.documents = @ + 1,
                                      !.count = @ + Len(applychanges)]
             IN  IF ValidChanges(Len(st.files[key]), applychanges)
                 THEN [opened EXCEPT !.files[key] = ApplyChanges(@, applychanges)]
                 ELSE [opened EXCEPT !.fatal = TRUE]

\* One iteration of the loop over self.matches. `st` holds the documents,
\* the two counters, and whether a transaction failed fatally.
RefactorFile(st, key, value, lmap, replace_text, op) ==
    LET changes == Changes(key, value, lmap, replace_text)
    IN  IF changes = <<>> THEN st
        ELSE IF ~CanOpen(op, key) THEN st
        ELSE LET applychanges == Stage(st.files[key], changes)
                 opened == [st EXCEPT !.documents = @ + 1,
                                      !.count = @ + Len(applychanges)]
             IN  IF ValidChanges(Len(st.files[key]), applychanges)
                 THEN [opened EXCEPT !.files[key] = ApplyChanges(@, applychanges)]
                 ELSE [opened EXCEPT !.fatal = TRUE]

\* for (key, value) in &self.matches { ... }: a fatal failure ends the loop.
RECURSIVE RefactorLoop(_, _, _, _, _)
RefactorLoop(st, ms, lmap, replace_text, op) ==
    IF ms = <<>> \/ st.fatal THEN st
    ELSE RefactorLoop(RefactorFile(st, ms[1][1], ms[1][2], lmap, replace_text, op),
                      Tail(ms), lmap, replace_text, op)

apply_refactor(ms, lmap, replace_text, fs, op) ==
    RefactorLoop([files |-> fs, documents |-> 0, count |-> 0, fatal |-> FALSE],
                 ms, lmap, replace_text, op)
\* ------------------------------------------------------------ key bindings
UNSUPPORTED_COMMANDS ==
    {"global_search", "global_refactor", "file_picker",
     "file_picker_in_current_directory", "code_action", "buffer_picker",
     "jumplist_picker", "symbol_picker",
     "select_references_to_symbol_under_cursor", "workspace_symbol_picker",
     "diagnostics_picker", "workspace_diagnostics_picker", "last_picker",
     "goto_definition", "goto_type_definition", "goto_implementation",
     "goto_file", "goto_file_hsplit", "goto_file_vsplit", "goto_reference",
     "goto_window_top", "goto_window_center", "goto_window_bottom",
     "goto_last_accessed_file", "goto_last_modified_file",
     "goto_last_modification", "goto_line", "goto_last_line",
     "goto_first_diag", "goto_last_diag", "goto_next_diag", "goto_prev_diag",
     "goto_line_start", "goto_line_end", "goto_next_buffer",
     "goto_previous_buffer", "signature_help", "completion", "hover",
     "select_next_sibling", "select_prev_sibling", "jump_view_right",
     "jump_view_left", "jump_view_up", "jump_view_down", "swap_view_right",
     "swap_view_left", "swap_view_up", "swap_view_down", "transpose_view",
     "rotate_view", "hsplit", "hsplit_new", "vsplit", "vsplit_new", "wonly",
     "select_textobject_around", "select_textobject_inner",
     "goto_next_function", "goto_prev_function", "goto_next_class",
     "goto_prev_class", "goto_next_parameter", "goto_prev_parameter",
     "goto_next_comment", "goto_prev_comment", "goto_next_test",
     "goto_prev_test", "goto_next_paragraph", "goto_prev_paragraph",
     "dap_launch", "dap_toggle_breakpoint", "dap_continue", "dap_pause",
     "dap_step_in", "dap_step_out", "dap_next", "dap_variables",
     "dap_terminate", "dap_edit_condition", "dap_edit_log",
     "dap_switch_thread", "dap_switch_stack_frame", "dap_enable_exceptions",
     "dap_disable_exceptions", "shell_pipe", "shell_pipe_to",
     "shell_insert_output", "shell_append_output", "shell_keep_pipe",
     "suspend", "rename_symbol", "record_macro", "replay_macro",
     "command_palette"}

Leaf(name) == [kind |-> "Leaf", name |-> name]
Node(name) == [kind |-> "Node", name |-> name]
Sequence == [kind |-> "Sequence", name |-> None]
Unbound == [kind |-> None, name |-> None]

\* The key events of the model. Esc, up and ret carry no character.
KeyEvents ==
    {"Esc", "up", "y", "Y", "n", "d", "~", "p", "i", ":", "G", "g", "space",
     "w", "q", "v", "Q"}
CharKeys == KeyEvents \ {"Esc", "up"}

\* KeyEvent::char()
KeyChar(event) == IF event \in CharKeys THEN Some(event) ELSE NoneOpt

\* KeyTrieNode::get on the key-binding trie of the session: the roots of the
\* two modes and the nodes below them. "Q" stands for a key a configuration
\* binds to a command sequence.
KeyTrieGet(node, event) ==
    CASE node = "normal" ->
            (CASE event = "y" -> Leaf("yank")
               [] event = "n" -> Leaf("search_next")
               [] event = "d" -> Leaf("delete_selection")
               [] event = "~" -> Leaf("switch_case")
               [] event = "i" -> Leaf("insert_mode")
               [] event = "p" -> Leaf("paste_after")
               [] event = "up" -> Leaf("move_line_up")
               [] event = ":" -> Leaf("command_mode")
               [] event = "G" -> Leaf("goto_line")
               [] event = "g" -> Node("g")
               [] event = "space" -> Node("space")
               [] event = "Q" -> Sequence
               [] OTHER -> Unbound)
      [] node = "insert" ->
            (CASE event = "up" -> Leaf("move_line_up")
               [] OTHER -> Unbound)
      [] node = "g" ->
            (CASE event = "g" -> Leaf("goto_file_start")
               [] event = "d" -> Leaf("goto_definition")
               [] OTHER -> Unbound)
      [] node = "space" ->
            (CASE event = "w" -> Node("window")
               [] event = "y" -> Leaf("yank_joined_to_clipboard")
               [] OTHER -> Unbound)
      [] node = "window" ->
            (CASE event = "q" -> Leaf("wclose")
               [] event = "v" -> Leaf("vsplit")
               [] OTHER -> Unbound)
      [] OTHER -> Unbound

\* Option::or: the first operand when it is Some.
or(a, b) == IF a.kind # None THEN a ELSE b

\* Faulty variant of StickyGet: the sticky node is never asked.
StickyGet_Skipped(st, event) == Unbound

\* sticky.as_ref().and_then(|sticky| sticky.get(event))
StickyGet(st, event) == IF st = None THEN Unbound ELSE KeyTrieGet(st, event)

\* The lookup of handle_event: the sticky node first, then the top-level map
\* of the editor's mode.
Resolve(st, md, event) == or(StickyGet(st, event), KeyTrieGet(md, event))
\* ------------------------------------------------------------------ state
VARIABLES
    matches,        \* RefactorView.matches, in the HashMap's iteration order
    line_map,       \* RefactorView.line_map: <<path, line>> -> buffer row
    sticky,         \* RefactorView.sticky: None or a trie node
    apply_prompt,   \* RefactorView.apply_prompt
    doc,            \* text of the synthetic document (doc!(editor).text())
    files,          \* text of the real document of every path
    openable,       \* whether editor.open succeeds for a path
    status,         \* the editor's status message
    autoinfo,       \* editor.autoinfo: None or the node whose help is shown
    mode,           \* editor.mode
    closed,         \* the view was closed and popped off the compositor
    fatal,          \* a transaction failed: the process panicked
    ret,            \* EventResult of the last handle_event
    edits,          \* number of buffer edits so far
    external,       \* the real files were changed behind the session's back
    offset,         \* view.offset.row: the first buffer row on screen
    gutter          \* the labels on the surface: screen row -> <<path, line>>

vars == <<matches, line_map, sticky, apply_prompt, doc, files, openable, status,
          autoinfo, mode, closed, fatal, ret, edits, external, offset, gutter>>

Status(text, documents, count) ==
    [text |-> text, documents |-> documents, count |-> count]
NoStatus == Status("", 0, 0)

\* -------------------------------------------------------------- match sets
Entries(texts) == Paths \X Lines \X texts

\* The entries of one path are adjacent: a HashMap holds every path once.
Contiguous(es) ==
    \A i, j, k \in DOMAIN es : (i < j /\ j < k /\ es[i][1] = es[k][1]) => es[j][1] = es[i][1]

FlatSets(texts) == {es \in SeqsUpTo(Entries(texts), MaxMatches) : Contiguous(es)}

RECURSIVE Group(_)
Group(es) ==
    IF es = <<>> THEN <<>>
    ELSE LET n == Cardinality({i \in DOMAIN es : es[i][1] = es[1][1]})
         IN  <<<<es[1][1], [i \in 1..n |-> <<es[i][2], es[i][3]>>]>>>>
             \o Group(SubSeq(es, n + 1, Len(es)))

\* The scenario of the key-handling specification: one match in a.txt and
\* one in b.txt, in either iteration order.
ScenarioA == <<"a.txt", <<<<0, <<"y">>>>>>>>
ScenarioB == <<"b.txt", <<<<1, <<"y">>>>>>>>
ScenarioSets == {<<ScenarioA, ScenarioB>>, <<ScenarioB, ScenarioA>>}

\* The real file a search found the entries in: line l holds the text of the
\* entry for (f, l), any other line holds "Y"; every line ends with "\n".
LineOf(es, f, l) ==
    LET at == {i \in DOMAIN es : es[i][1] = f /\ es[i][2] = l}
    IN  IF at = {} THEN <<"Y">>
        ELSE es[CHOOSE i \in at : \A j \in at : j <= i][3]

RECURSIVE FileFrom(_, _, _)
FileFrom(es, f, l) ==
    IF l \notin Lines THEN <<>>
    ELSE LineOf(es, f, l) \o <<NL>> \o FileFrom(es, f, l + 1)

BaseFile(ms, f) == FileFrom(Flatten(ms), f, 0)

\* ------------------------------------------------------------------- Init
\* The state RefactorView::new leaves for the match set ms.
new(ms) ==
    /\ matches = ms
    /\ line_map = new_line_map(ms)
    /\ sticky = None
    /\ apply_prompt = FALSE
    /\ doc = new_doc_text(ms)
    /\ files = [f \in Paths |-> BaseFile(ms, f)]
    /\ openable = [f \in Paths |-> TRUE]
    /\ status = NoStatus
    /\ autoinfo = None
    /\ mode = "normal"
    /\ closed = FALSE
    /\ fatal = FALSE
    /\ ret = None
    /\ edits = 0
    /\ external = FALSE
    /\ offset = 0
    /\ gutter = <<>>

Init == \E ms \in ScenarioSets : new(ms)

InitReconcile == \E es \in FlatSets(LineTexts) : new(Group(es))

InitNew == \E es \in FlatSets(Texts) : new(Group(es))

\* Faulty variant of close: the info box is left as it is.
close_KeepsInfo ==
    /\ closed' = TRUE
    /\ UNCHANGED autoinfo
    /\ ret' = "Consumed"

\* ---------------------------------------------------- RefactorView::close
close ==
    /\ closed' = TRUE
    /\ autoinfo' = None
    /\ ret' = "Consumed"

\* ------------------------------------------------ Component::handle_event
\* The 'y'/'Y' branch of the confirm prompt.
Confirm ==
    LET r == apply_refactor(matches, line_map, doc, files, openable)
    IN  /\ files' = r.files
        /\ fatal' = r.fatal
        /\ IF r.fatal
           THEN UNCHANGED <<status, closed, autoinfo, ret>>
           ELSE status' = Status("Refactored", r.documents, r.count) /\ close
        /\ UNCHANGED <<sticky, apply_prompt>>

\* Any other key while the confirm prompt is up.
Abort ==
    /\ status' = Status("Aborted", 0, 0)
    /\ apply_prompt' = FALSE
    /\ ret' = "Consumed"
    /\ UNCHANGED <<sticky, autoinfo, files, closed, fatal>>

\* Faulty variant of Dispatch: a leaf that is run by the editor view is consumed.
Dispatch_ConsumesLeaf(key) ==
    CASE key.kind = "Leaf" ->
            IF key.name \in UNSUPPORTED_COMMANDS
            THEN /\ status' = Status("Command not supported in refactor view", 0, 0)
                 /\ ret' = "Consumed"
                 /\ UNCHANGED <<sticky, apply_prompt, autoinfo, files, closed, fatal>>
            ELSE IF key.name = "wclose"
            THEN /\ close
                 /\ UNCHANGED <<sticky, apply_prompt, status, files, fatal>>
            ELSE IF key.name = "command_mode"
            THEN /\ status' = Status("Apply changes to documents? (y/n): ", 0, 0)
                 /\ apply_prompt' = TRUE
                 /\ ret' = "Consumed"
                 /\ UNCHANGED <<sticky, autoinfo, files, closed, fatal>>
            ELSE /\ sticky' = None
                 /\ autoinfo' = None
                 /\ ret' = "Consumed"
                 /\ UNCHANGED <<apply_prompt, status, files, closed, fatal>>
      [] key.kind = "Node" ->
            /\ sticky' = key.name
            /\ autoinfo' = key.name
            /\ ret' = "Consumed"
            /\ UNCHANGED <<apply_prompt, status, files, closed, fatal>>
      [] OTHER ->
            /\ ret' = "Ignored"
            /\ UNCHANGED <<sticky, apply_prompt, status, autoinfo, files, closed, fatal>>

\* Faulty variant of Dispatch: the sticky node is cleared before the command is looked at.
Dispatch_ClearsSticky(key) ==
    CASE key.kind = "Leaf" ->
            IF key.name \in UNSUPPORTED_COMMANDS
            THEN /\ status' = Status("Command not supported in refactor view", 0, 0)
                 /\ ret' = "Consumed"
                 /\ sticky' = None
                 /\ UNCHANGED <<apply_prompt, autoinfo, files, closed, fatal>>
            ELSE IF key.name = "wclose"
            THEN /\ close
                 /\ UNCHANGED <<sticky, apply_prompt, status, files, fatal>>
            ELSE IF key.name = "command_mode"
            THEN /\ status' = Status("Apply changes to documents? (y/n): ", 0, 0)
                 /\ apply_prompt' = TRUE
                 /\ ret' = "Consumed"
                 /\ UNCHANGED <<sticky, autoinfo, files, closed, fatal>>
            ELSE /\ sticky' = None
                 /\ autoinfo' = None
                 /\ ret' = "Ignored"
                 /\ UNCHANGED <<apply_prompt, status, files, closed, fatal>>
      [] key.kind = "Node" ->
            /\ sticky' = key.name
            /\ autoinfo' = key.name
            /\ ret' = "Consumed"
            /\ UNCHANGED <<apply_prompt, status, files, closed, fatal>>
      [] OTHER ->
            /\ ret' = "Ignored"
            /\ UNCHANGED <<sticky, apply_prompt, status, autoinfo, files, closed, fatal>>

\* The match on the resolved KeyTrie.
Dispatch(key) ==
    CASE key.kind = "Leaf" ->
            IF key.name \in UNSUPPORTED_COMMANDS
            THEN /\ status' = Status("Command not supported in refactor view", 0, 0)
                 /\ ret' = "Consumed"
                 /\ UNCHANGED <<sticky, apply_prompt, autoinfo, files, closed, fatal>>
            ELSE IF key.name = "wclose"
            THEN /\ close
                 /\ UNCHANGED <<sticky, apply_prompt, status, files, fatal>>
            ELSE IF key.name = "command_mode"
            THEN /\ status' = Status("Apply changes to documents? (y/n): ", 0, 0)
                 /\ apply_prompt' = TRUE
                 /\ ret' = "Consumed"
                 /\ UNCHANGED <<sticky, autoinfo, files, closed, fatal>>
            ELSE /\ sticky' = None
                 /\ autoinfo' = None
                 /\ ret' = "Ignored"
                 /\ UNCHANGED <<apply_prompt, status, files, closed, fatal>>
      [] key.kind = "Node" ->
            /\ sticky' = key.name
            /\ autoinfo' = key.name
            /\ ret' = "Consumed"
            /\ UNCHANGED <<apply_prompt, status, files, closed, fatal>>
      [] OTHER ->
            /\ ret' = "Ignored"
            /\ UNCHANGED <<sticky, apply_prompt, status, autoinfo, files, closed, fatal>>

\* Faulty variant of handle_event: Escape is looked up like any other key.
handle_event_NoEscArm(event) ==
    IF apply_prompt
    THEN IF KeyChar(event) \in {Some("y"), Some("Y")} THEN Confirm ELSE Abort
    ELSE Dispatch(Resolve(sticky, mode, event))

handle_event(event) ==
    IF event = "Esc"
    THEN /\ sticky' = None
         /\ ret' = "Ignored"
         /\ UNCHANGED <<apply_prompt, status, autoinfo, files, closed, fatal>>
    ELSE IF apply_prompt
    THEN IF KeyChar(event) \in {Some("y"), Some("Y")} THEN Confirm ELSE Abort
    ELSE Dispatch(Resolve(sticky, mode, event))

\* ------------------------------------------------- the editor view below
\* One-character edits of the synthetic document.
Deletions(t) == {SubSeq(t, 1, i - 1) \o SubSeq(t, i + 1, Len(t)) : i \in DOMAIN t}
Insertions(t, c) == {SubSeq(t, 1, i) \o <<c>> \o SubSeq(t, i + 1, Len(t)) : i \in 0..Len(t)}
SwitchCase(c) == IF c = "y" THEN "Y" ELSE IF c = "Y" THEN "y" ELSE c
CaseSwitches(t) == {[t EXCEPT ![i] = SwitchCase(@)] : i \in {j \in DOMAIN t : t[j] # NL}}

\* The character the yank register holds.
Register == "Y"

\* The texts the command bound to the key at the top level can leave.
Edited(event) ==
    LET key == KeyTrieGet(mode, event)
    IN  CASE key = Leaf("delete_selection") -> Deletions(doc)
          [] key = Leaf("switch_case") -> CaseSwitches(doc)
          [] key = Leaf("paste_after") -> Insertions(doc, Register)
          [] key = Unbound /\ mode = "insert" /\ event \in Chars -> Insertions(doc, event)
          [] OTHER -> {}

\* An event the view ignores reaches the editor view, which runs the command
\* on the synthetic document.
EditorView(event) ==
    /\ mode' = IF event = "Esc" THEN "normal"
               ELSE IF KeyTrieGet(mode, event) = Leaf("insert_mode") THEN "insert"
               ELSE mode
    /\ IF Edited(event) = {}
       THEN UNCHANGED <<doc, edits>>
       ELSE /\ edits < MaxEdits
            /\ doc' \in Edited(event)
            /\ edits' = edits + 1

\* In insert mode the user types the characters of the model's alphabet only.
InsertKeys == {"Esc", "up", "Y"}

\* One key event, through the view and, when ignored, the editor view.
KeyEvent(event) ==
    /\ ~closed /\ ~fatal
    /\ mode = "insert" => event \in InsertKeys
    /\ handle_event(event)
    /\ IF ret' = "Ignored"
       THEN EditorView(event)
       ELSE UNCHANGED <<doc, mode, edits>>
    /\ UNCHANGED <<matches, line_map, openable, external, offset, gutter>>

\* ------------------------------------------------------- the environment
\* The model follows one change to the real files behind the session's back.
\* The real documents are read by apply_refactor only, so the change is
\* followed at the last moment it can matter: while the prompt waits.

\* A real file loses its last lines.
ExternalShorten(f) ==
    /\ ~closed /\ ~fatal /\ apply_prompt
    /\ ~external
    /\ \E k \in 0..(Len(files[f]) - 1) :
            /\ IF k = 0 THEN TRUE ELSE files[f][k] = NL
            /\ files' = [files EXCEPT ![f] = SubSeq(@, 1, k)]
    /\ external' = TRUE
    /\ UNCHANGED <<matches, line_map, sticky, apply_prompt, doc, openable, status,
                   autoinfo, mode, closed, fatal, ret, edits, offset, gutter>>

\* A real file becomes impossible to open.
ExternalLock(f) ==
    /\ ~closed /\ ~fatal /\ apply_prompt
    /\ ~external
    /\ openable[f]
    /\ openable' = [openable EXCEPT ![f] = FALSE]
    /\ external' = TRUE
    /\ UNCHANGED <<matches, line_map, sticky, apply_prompt, doc, files, status,
                   autoinfo, mode, closed, fatal, ret, edits, offset, gutter>>

Key == \E event \in KeyEvents : KeyEvent(event)
Shorten == \E f \in Paths : ExternalShorten(f)
Lock == \E f \in Paths : ExternalLock(f)

Next == Key \/ Shorten \/ Lock

Spec == Init /\ [][Next]_vars

\* The reconciliation specification: every match set of one-line texts within
\* the bounds; the user edits in normal mode, asks to commit and confirms.
EditKeys == {"d", "p", ":"}
ReconcileKey ==
    \/ ~apply_prompt /\ \E event \in EditKeys : KeyEvent(event)
    \/ apply_prompt /\ KeyEvent("y")

NextReconcile == ReconcileKey \/ Shorten \/ Lock

SpecReconcile == InitReconcile /\ [][NextReconcile]_vars

\* The construction specification: every match set within the bounds, texts
\* with line terminators included, committed as built.
NewKey ==
    \/ ~apply_prompt /\ KeyEvent(":")
    \/ apply_prompt /\ KeyEvent("y")

NextNew == NewKey

SpecNew == InitNew /\ [][NextNew]_vars
\* ================================================================ claims
\* ----------------------------------------------------------------- helpers
Flat == Flatten(matches)
KeyOf(e) == <<e[1], e[2]>>
TotalMatchCount == Len(Flat)

\* No file lists the same line number twice.
NoDuplicateKeys ==
    \A i, j \in DOMAIN Flat : i # j => KeyOf(Flat[i]) # KeyOf(Flat[j])

\* Entries that share a (file, line) key carry the same text.
KeysAgree ==
    \A i, j \in DOMAIN Flat : KeyOf(Flat[i]) = KeyOf(Flat[j]) => Flat[i][3] = Flat[j][3]

\* No snapshot text contains a line terminator.
PlainTexts ==
    \A i \in DOMAIN Flat : \A c \in DOMAIN Flat[i][3] : Flat[i][3][c] # NL

\* The content of row r of a text, without its line terminator.
HasRow(t, r) == r < len_lines(t)
RowText(t, r) == strip_suffix_nl(unwrap_or(get_line(t, r), <<>>))

\* The list of a path in matches, empty when the path has none.
ValueOf(f) ==
    LET at == {i \in DOMAIN matches : matches[i][1] = f}
    IN  IF at = {} THEN <<>> ELSE matches[CHOOSE i \in at : TRUE][2]

\* The pending edits of a path, and those whose line the real file still has.
Pending(f) == Changes(f, ValueOf(f), line_map, doc)
InRange(f) == {i \in DOMAIN Pending(f) : Pending(f)[i][1] < len_lines(files[f])}

RECURSIVE SumInRange(_)
SumInRange(S) ==
    IF S = {} THEN 0
    ELSE LET f == CHOOSE x \in S : TRUE
         IN  Cardinality(InRange(f)) + SumInRange(S \ {f})

\* The step in which handle_event runs apply_refactor.
CommitStep == apply_prompt /\ ~closed /\ ~fatal /\ (closed' \/ fatal')

\* The synthetic buffer as built, and the rows the user changed since.
OrigDoc == new_doc_text(matches)
ChangedRows ==
    {r \in 0..(len_lines(OrigDoc) - 1) : RowText(doc, r) # RowText(OrigDoc, r)}
MappedRows == {line_map[k] : k \in DOMAIN line_map}
OneRowChangedInPlace ==
    /\ len_lines(doc) = len_lines(OrigDoc)
    /\ Cardinality(ChangedRows) = 1
    /\ ChangedRows \subseteq MappedRows
TheRow == CHOOSE r \in ChangedRows : TRUE
TheKey == CHOOSE k \in DOMAIN line_map : line_map[k] = TheRow

\* Every real file opens and still holds every snapshot text at its line.
FilesMatchSnapshot ==
    /\ \A f \in Paths : openable[f]
    /\ \A i \in DOMAIN Flat :
          /\ HasRow(files[Flat[i][1]], Flat[i][2])
          /\ RowText(files[Flat[i][1]], Flat[i][2]) = Flat[i][3]

\* apply_refactor returned (1, 1); the line of TheKey holds the new text and
\* every other line of every file is as it was.
OneLineRewritten ==
    /\ closed' /\ ~fatal'
    /\ status' = Status("Refactored", 1, 1)
    /\ \A f \in Paths :
          /\ len_lines(files'[f]) = len_lines(files[f])
          /\ \A l \in 0..(len_lines(files[f]) - 1) :
                IF <<f, l>> = TheKey
                THEN RowText(files'[f], l) = RowText(doc, TheRow)
                ELSE get_line(files'[f], l) = get_line(files[f], l)

\* ---------------------------------------------------------------------- C1
\* C1 as stated: with every real file openable and identical to the snapshot
\* and exactly one mapped row changed in place, the commit returns (1, 1),
\* the mapped line holds the new text and every other line is unchanged.
C1_Original ==
    [][(CommitStep /\ FilesMatchSnapshot /\ OneRowChangedInPlace) => OneLineRewritten]_vars

\* C1 amended: the same, for match sets in which no file lists the same line
\* number twice.
C1_OneEditOneLine ==
    [][(CommitStep /\ FilesMatchSnapshot /\ OneRowChangedInPlace /\ NoDuplicateKeys)
          => OneLineRewritten]_vars

\* C1 witness: a commit of two or more distinct matches reported (1, 1) after
\* one row was changed in place.
C1_Witness ==
    /\ closed /\ ~fatal /\ ~external
    /\ status = Status("Refactored", 1, 1)
    /\ NoDuplicateKeys /\ TotalMatchCount >= 2
    /\ OneRowChangedInPlace

\* ---------------------------------------------------------------------- C2
NothingApplied ==
    /\ ~fatal
    /\ status = Status("Refactored", 0, 0)
    /\ \A f \in Paths : files[f] = BaseFile(matches, f)

\* C2 as stated: for every match set, a commit of the unedited buffer applies
\* no transaction and returns (0, 0).
C2_Original ==
    (edits = 0 /\ ~external /\ (closed \/ fatal)) => NothingApplied

\* C2 amended: a commit of the unedited buffer applies no transaction and
\* returns (0, 0) for every match set in which no text contains a line
\* terminator and entries with the same (file, line) carry the same text.
C2_NoEditNoChange ==
    (edits = 0 /\ ~external /\ (closed \/ fatal) /\ PlainTexts /\ KeysAgree)
        => NothingApplied

\* C2 witness: an unedited buffer of matches in two files was committed.
C2_Witness ==
    /\ closed /\ edits = 0 /\ PlainTexts /\ KeysAgree
    /\ Len(matches) = 2
    /\ status = Status("Refactored", 0, 0)

\* ---------------------------------------------------------------------- C3
OneRowPerKey ==
    /\ DOMAIN line_map = {KeyOf(Flat[i]) : i \in DOMAIN Flat}
    /\ \A k1, k2 \in DOMAIN line_map : k1 # k2 => line_map[k1] # line_map[k2]

\* C3 as stated: for any non-empty match set line_map is a bijection between
\* its key set and {0, ..., totalMatchCount-1}.
C3_Original ==
    matches # <<>> => (OneRowPerKey /\ MappedRows = 0..(TotalMatchCount - 1))

\* C3 amended: for any non-empty match set line_map has exactly one row per
\* snapshot key, no two keys share a row and every row is below
\* totalMatchCount; it is a bijection onto {0, ..., totalMatchCount-1} when
\* no file lists the same line number twice.
C3_LineMapInjective ==
    matches # <<>> =>
        /\ OneRowPerKey
        /\ MappedRows \subseteq 0..(TotalMatchCount - 1)
        /\ NoDuplicateKeys => MappedRows = 0..(TotalMatchCount - 1)

\* C3 witness: a match set of two files, no line listed twice.
C3_Witness ==
    /\ Len(matches) = 2 /\ NoDuplicateKeys
    /\ MappedRows = 0..(TotalMatchCount - 1)

\* ---------------------------------------------------------------------- C4
RowsHoldTexts ==
    \A i \in DOMAIN Flat :
        /\ HasRow(doc, line_map[KeyOf(Flat[i])])
        /\ RowText(doc, line_map[KeyOf(Flat[i])]) = Flat[i][3]

\* C4 as stated: before any edit, the row of every match holds its text.
C4_Original == (edits = 0 /\ ~closed) => RowsHoldTexts

\* C4 amended: before any edit, the row of every match holds its text, for
\* match sets in which no text contains a line terminator and entries with
\* the same (file, line) carry the same text.
C4_RowsReadBack == (edits = 0 /\ ~closed /\ PlainTexts /\ KeysAgree) => RowsHoldTexts

\* C4 witness: a fresh buffer of two different texts in two files.
C4_Witness ==
    /\ edits = 0 /\ ~closed /\ PlainTexts /\ KeysAgree
    /\ Len(matches) = 2
    /\ \E i, j \in DOMAIN Flat : Flat[i][3] # Flat[j][3]
\* ---------------------------------------------------------------------- C5
\* C5 as stated: while the confirm prompt is up, every key event other than
\* 'y'/'Y', Escape included, returns the session to Browsing with the status
\* "Aborted" and changes no real file.
C5_Original ==
    [][\A event \in KeyEvents \ {"y", "Y"} :
          (apply_prompt /\ KeyEvent(event)) =>
              /\ apply_prompt' = FALSE
              /\ sticky' = None
              /\ status' = Status("Aborted", 0, 0)
              /\ files' = files]_vars

\* ---------------------------------------------------------------------- C6
UnsupportedKey(event) ==
    LET key == Resolve(sticky, mode, event)
    IN  key.kind = "Leaf" /\ key.name \in UNSUPPORTED_COMMANDS

Refused ==
    /\ sticky' = sticky
    /\ apply_prompt' = apply_prompt
    /\ status' = Status("Command not supported in refactor view", 0, 0)

\* C6 as stated: in every session state, ConfirmPending included, a key bound
\* to an unsupported command leaves the sticky node and the confirm flag as
\* they were and sets the status to "Command not supported in refactor view".
C6_Original ==
    [][\A event \in KeyEvents : (UnsupportedKey(event) /\ KeyEvent(event)) => Refused]_vars

\* C6 amended: while the confirm prompt is not up (Browsing, StickyNavigation),
\* a key bound to an unsupported command leaves the sticky node and the
\* confirm flag as they were and sets the status to "Command not supported in
\* refactor view".
C6_UnsupportedRefused ==
    [][\A event \in KeyEvents :
          (~apply_prompt /\ UnsupportedKey(event) /\ KeyEvent(event)) => Refused]_vars

\* C6 witness: an unsupported command was refused below a sticky node, which
\* is still there.
C6_Witness ==
    /\ status = Status("Command not supported in refactor view", 0, 0)
    /\ sticky # None /\ ~apply_prompt /\ ~closed

\* ---------------------------------------------------------------------- C7
Opened == {f \in Paths : openable[f] /\ Pending(f) # <<>>}
AllDropped(f) == Pending(f) # <<>> /\ InRange(f) = {}

\* C7 as stated: an edit whose line the real file no longer has is dropped
\* and not counted: the file is unchanged by it, linesChanged counts the
\* edits applied, and filesTouched counts the files with an edit applied.
C7_Original ==
    [][CommitStep =>
          /\ \A f \in Paths : AllDropped(f) => files'[f] = files[f]
          /\ closed' => status' = Status("Refactored",
                                         Cardinality({f \in Opened : InRange(f) # {}}),
                                         SumInRange(Opened))]_vars

\* C7 amended: an edit whose line the real file no longer has is dropped: the
\* file is unchanged by it and linesChanged counts the edits applied only;
\* filesTouched counts every file with pending edits that was opened, also
\* one all of whose edits were dropped.
C7_DroppedNotCounted ==
    [][CommitStep =>
          /\ \A f \in Paths : AllDropped(f) => files'[f] = files[f]
          /\ closed' => status' = Status("Refactored", Cardinality(Opened),
                                         SumInRange(Opened))]_vars

\* C7 witness: a commit opened one shortened file and dropped its edits.
C7_Witness ==
    /\ closed /\ external
    /\ status = Status("Refactored", 1, 0)
    /\ \E f \in Paths : openable[f] /\ AllDropped(f)

\* ---------------------------------------------------------------------- C8
Unopened(f) == ~openable[f] /\ Pending(f) # <<>>
KeepsEntry(m) == ~Unopened(m[1])
WithoutUnopened == SelectSeq(matches, KeepsEntry)

\* C8: a file with pending edits that cannot be opened is skipped and not
\* counted, and the commit leaves every document, both counters and the
\* outcome as a commit of the match set without that file does.
C8_OpenFailureSkipped ==
    [][CommitStep =>
          LET r == apply_refactor(WithoutUnopened, line_map, doc, files, openable)
          IN  /\ files' = r.files
              /\ fatal' = r.fatal
              /\ closed' => status' = Status("Refactored", r.documents, r.count)]_vars

\* C8 witness: a commit skipped a file it could not open and changed another.
C8_Witness ==
    /\ closed
    /\ \E f \in Paths : Unopened(f)
    /\ status.text = "Refactored" /\ status.documents = 1 /\ status.count >= 1

\* ---------------------------------------------------------------------- C9
\* C9 as stated: apply_refactor never fails fatally: every batch it stages is
\* within the document, ascending and not overlapping.
C9_Original ==
    /\ ~fatal
    /\ (apply_prompt /\ ~closed) =>
          \A f \in Opened : ValidChanges(Len(files[f]), Stage(files[f], Pending(f)))

\* --------------------------------------------------------------------- C10
\* C10 as stated: the sticky node and the confirm flag are never both set.
C10_Original == sticky # None => ~apply_prompt
\* ---------------------------------------------- RefactorView::render_view
\* The loops of render_doc_name: the label of the entry counted `start` is
\* set at screen row area.y + start (area.y is 0 here) when start has
\* reached the scroll offset.
RECURSIVE DrawLabels(_, _, _, _)
DrawLabels(es, start, offset_row, surface) ==
    IF es = <<>> THEN surface
    ELSE DrawLabels(Tail(es), start + 1, offset_row,
                    IF start >= offset_row
                    THEN (start :> <<es[1][1], es[1][2]>>) @@ surface
                    ELSE surface)

render_doc_name(ms, offset_row) == DrawLabels(Flatten(ms), 0, offset_row, <<>>)

\* EditorView::render_text_highlights: the buffer row shown on a screen row.
RowOnScreen(screen_row, offset_row) == offset_row + screen_row

\* A redraw after the view was scrolled to some row of the buffer.
Redraw ==
    /\ ~closed /\ ~fatal
    /\ \E o \in 0..(len_lines(doc) - 1) :
            /\ offset' = o
            /\ gutter' = render_doc_name(matches, o)
    /\ UNCHANGED <<matches, line_map, sticky, apply_prompt, doc, files, openable,
                   status, autoinfo, mode, closed, fatal, ret, edits, external>>

\* The rendering specification: every match set within the bounds, redrawn
\* at every scroll offset.
NextRender == Redraw

SpecRender == InitNew /\ [][NextRender]_vars

\* --------------------------------------------------------------------- C11
Browsing == sticky = None /\ ~apply_prompt /\ ~closed
StickyNavigation == sticky # None /\ ~apply_prompt /\ ~closed
ConfirmPending == apply_prompt /\ ~closed

\* C11 as stated: ConfirmPending is entered only by a key that resolves to
\* the leaf command_mode, which shows the prompt; a key event in
\* ConfirmPending leaves the session in ConfirmPending, in Browsing (abort)
\* or closed (confirm), never in StickyNavigation, and runs no bound command.
C11_Original ==
    [][\A event \in KeyEvents : KeyEvent(event) =>
          /\ (~apply_prompt /\ apply_prompt') =>
                /\ Resolve(sticky, mode, event) = Leaf("command_mode")
                /\ status' = Status("Apply changes to documents? (y/n): ", 0, 0)
          /\ ConfirmPending =>
                /\ ConfirmPending' \/ Browsing' \/ closed'
                /\ doc' = doc]_vars

\* --------------------------------------------------------------------- C12
EscapeKept ==
    /\ sticky' = None
    /\ closed' = closed
    /\ files' = files
    /\ status' = status

C13_Original ==
    [][\A event \in KeyEvents \ {"Esc"} :
          (StickyNavigation /\ KeyEvent(event) /\ KeyTrieGet(sticky, event) = Unbound) =>
              /\ ret' = "Ignored"
              /\ UNCHANGED <<sticky, apply_prompt, status, autoinfo, closed, files>>]_vars

\* --------------------------------------------------------------------- C14
OtherLeaf(key) ==
    /\ key.kind = "Leaf"
    /\ key.name \notin UNSUPPORTED_COMMANDS \cup {"wclose", "command_mode"}

\* C14: outside ConfirmPending, a key that resolves to a leaf command that
\* is not unsupported, not wclose and not command_mode clears the sticky
\* node and the info display, leaves the session in Browsing and is returned
\* unconsumed; the status and the real files are as they were.
C14_OtherLeafPropagates ==
    [][\A event \in KeyEvents \ {"Esc"} :
          (~apply_prompt /\ OtherLeaf(Resolve(sticky, mode, event)) /\ KeyEvent(event)) =>
              /\ sticky' = None /\ autoinfo' = None
              /\ Browsing'
              /\ ret' = "Ignored"
              /\ status' = status /\ files' = files]_vars

\* C14 witness: delete_selection went through to the editor view, which
\* shortened the buffer; the session is in Browsing with no info display.
C14_Witness ==
    /\ Len(doc) < Len(OrigDoc)
    /\ Browsing /\ autoinfo = None /\ ret = "Ignored"

\* --------------------------------------------------------------------- C15
\* C15: outside ConfirmPending, a key that resolves to an internal trie node
\* makes that node the sticky node, shows its help and is consumed; a key
\* the sticky node binds is resolved to the node's binding, so a key bound
\* to a node below it moves the sticky node one level down.
C15_NodeBecomesSticky ==
    [][\A event \in KeyEvents \ {"Esc"} : ~apply_prompt =>
          /\ (Resolve(sticky, mode, event).kind = "Node" /\ KeyEvent(event)) =>
                /\ sticky' = Resolve(sticky, mode, event).name
                /\ autoinfo' = sticky'
                /\ ret' = "Consumed"
                /\ UNCHANGED <<apply_prompt, status, closed, files, doc>>
          /\ (sticky # None /\ KeyTrieGet(sticky, event) # Unbound /\ KeyEvent(event)) =>
                /\ Resolve(sticky, mode, event) = KeyTrieGet(sticky, event)
                /\ KeyTrieGet(sticky, event).kind = "Node" =>
                      sticky' = KeyTrieGet(sticky, event).name]_vars

\* C15 witness: two prefix keys have been pressed; the sticky node is the
\* node two levels down and its help is shown.
C15_Witness == sticky = "window" /\ autoinfo = "window" /\ ret = "Consumed" /\ ~closed

\* --------------------------------------------------------------------- C16
\* C16: outside ConfirmPending, a key that resolves to the leaf wclose closes
\* the session (the info display is cleared, the pane is popped, the event
\* is consumed) without reconciliation: no real file and no status changes.
C16_CloseWithoutReconcile ==
    [][\A event \in KeyEvents \ {"Esc"} :
          (~apply_prompt /\ Resolve(sticky, mode, event) = Leaf("wclose") /\ KeyEvent(event)) =>
              /\ closed' /\ autoinfo' = None /\ ret' = "Consumed"
              /\ files' = files /\ status' = status /\ ~fatal']_vars

\* C16 witness: the session was closed with an edited buffer and without a
\* commit; every real file is as the snapshot left it.
C16_Witness ==
    /\ closed /\ edits > 0 /\ doc # OrigDoc
    /\ status.text # "Refactored"
    /\ \A f \in Paths : files[f] = BaseFile(matches, f)

\* --------------------------------------------------------------------- C17
\* C17 as stated: whenever the info display is set, the sticky node is set.
C17_Original == (~closed /\ autoinfo # None) => sticky # None
\* --------------------------------------------------------------------- C18
\* C18 as stated: after a redraw at any scroll offset, for every buffer row r
\* at or below the offset that line_map gives to a match, the label of that
\* match is on the screen row that shows buffer row r.
C18_Original ==
    gutter # <<>> =>
        \A key \in DOMAIN line_map :
            LET r == line_map[key]
            IN  r >= offset =>
                    \E screen_row \in DOMAIN gutter :
                        /\ gutter[screen_row] = key
                        /\ RowOnScreen(screen_row, offset) = r
\* --------------------------------------------------------------------- C19
\* Every entry of the file reads back its recorded text from its row.
RowsAsRecorded(f) ==
    \A i \in DOMAIN ValueOf(f) :
        LET e == ValueOf(f)[i]
        IN  RowText(doc, line_map[<<f, e[1]>>]) = e[2]

\* C19: at a commit, a file every mapped row of which holds its recorded
\* text is skipped: its content is unchanged and it is not counted, so the
\* number of files touched is at most the number of the other files,
\* whatever edits the rows of other files hold.
C19_UnchangedFileSkipped ==
    [][CommitStep =>
          /\ \A f \in Paths : RowsAsRecorded(f) => files'[f] = files[f]
          /\ closed' => status'.documents
                            <= Cardinality({f \in Paths : ~RowsAsRecorded(f)})]_vars

\* C19 witness: a commit changed one of two files of the snapshot and left
\* the other, whose rows were not edited, as it was.
C19_Witness ==
    /\ closed /\ status = Status("Refactored", 1, 1)
    /\ Len(matches) = 2
    /\ \E f \in Paths :
          /\ ValueOf(f) # <<>> /\ RowsAsRecorded(f)
          /\ files[f] = BaseFile(matches, f)

\* --------------------------------------------------------------------- C20
\* C20 as stated: a key event changes a real file only when it is 'y'/'Y'
\* handled in ConfirmPending; that key runs the reconciliation and is
\* followed at once by Close, so that it runs at most once; no key event
\* changes the match snapshot or line_map.
C20_Original ==
    [][\A event \in KeyEvents : KeyEvent(event) =>
          /\ files' # files => (ConfirmPending /\ event \in {"y", "Y"})
          /\ (ConfirmPending /\ event \in {"y", "Y"}) => closed'
          /\ matches' = matches /\ line_map' = line_map]_vars
====
